---- MODULE Spec2Model ----
(***************************************************************************)
(* JointSensorPublisher of mujoco_sim_module                               *)
(* (src/module/mujoco_sim_module/publisher/joint_sensor_publisher.cc):     *)
(* frequency validation, sensor binding, the per-tick rate divider and     *)
(* the hand-over of snapshots to the executor.                             *)
(*                                                                         *)
(* The divider accumulates in C++ double.  TLC's integers are 32 bit, so   *)
(* a double is a record [s, e, h, l]: sign s, unbiased exponent e and the  *)
(* 53-bit significand h * 2^26 + l (2^52 <= significand < 2^53), of value  *)
(* (-1)^s * significand * 2^(e - 52).  Zero has h = l = 0; +infinity has   *)
(* e = EInf.  Every operation rounds to nearest, ties to even, as IEEE 754 *)
(* arithmetic does.                                                        *)
(***************************************************************************)
EXTENDS Integers, Sequences, FiniteSets, TLC

\* ------------------------------------------------------------------------
\* Two-limb naturals: <<h, l>> is h * Limb + l with 0 <= l < Limb.
\* ------------------------------------------------------------------------
Limb == 2^26

Pow2(k) == 2^k

\* Number of significant bits of n, 0 <= n < 2^31.
BitLen(n) ==
  IF n = 0 THEN 0
  ELSE CHOOSE k \in 1..31 : Pow2(k - 1) <= n /\ (k = 31 \/ n < Pow2(k))

\* Number of significant bits of h * Limb + l.
BitLen2(h, l) == IF h > 0 THEN 26 + BitLen(h) ELSE BitLen(l)

\* (h * Limb + l) * 2^k, for a value that stays below 2^53.
RECURSIVE Shl2(_, _, _)
Shl2(h, l, k) ==
  IF k = 0 THEN <<h, l>>
  ELSE IF k >= 26 THEN Shl2(h * Limb + l, 0, k - 26)
  ELSE <<h * Pow2(k) + l \div Pow2(26 - k), (l % Pow2(26 - k)) * Pow2(k)>>

\* floor((h * Limb + l) / 2^k) as <<h', l', rest>>, rest = 0 when nothing
\* was shifted out, and otherwise 1, 2 or 3 as the part shifted out is
\* below, equal to or above half of 2^k.
Shr2(h, l, k) ==
  IF k = 0 THEN <<h, l, 0>>
  ELSE IF k <= 26 THEN
    LET out  == l % Pow2(k)
        half == Pow2(k - 1)
    IN  << h \div Pow2(k),
           (h % Pow2(k)) * Pow2(26 - k) + l \div Pow2(k),
           IF out = 0 THEN 0 ELSE IF out < half THEN 1
           ELSE IF out = half THEN 2 ELSE 3 >>
  ELSE
    LET j    == k - 26
        outh == IF j >= 31 THEN h ELSE h % Pow2(j)
        halfh == IF j >= 32 THEN 0 ELSE Pow2(j - 1)
        v     == IF j >= 31 THEN 0 ELSE h \div Pow2(j)
    IN  << v \div Limb,
           v % Limb,
           IF outh = 0 /\ l = 0 THEN 0
           ELSE IF j >= 32 \/ outh < halfh THEN 1
           ELSE IF outh = halfh /\ l = 0 THEN 2 ELSE 3 >>

\* ------------------------------------------------------------------------
\* IEEE 754 binary64 values and arithmetic.
\* ------------------------------------------------------------------------
EInf == 2^10

DZero == [s |-> 0, e |-> 0, h |-> 0, l |-> 0]

DInf == [s |-> 0, e |-> EInf, h |-> 0, l |-> 0]

IsInf(x) == x.e = EInf

IsZero(x) == x.h = 0 /\ x.l = 0 /\ x.e # EInf

\* The double of sign s, exponent e and significand m[1] * Limb + m[2].
Normal(s, m, e) == [s |-> s, e |-> e, h |-> m[1], l |-> m[2]]

\* The same with the significand rounded to nearest, ties to even: m[3]
\* and sticky tell what lies below its last bit.
RoundUp(s, m, sticky, e) ==
  IF ~(m[3] = 3 \/ (m[3] = 2 /\ (sticky \/ m[2] % 2 = 1)))
  THEN Normal(s, m, e)
  ELSE IF m[2] + 1 < Limb THEN [s |-> s, e |-> e, h |-> m[1], l |-> m[2] + 1]
  ELSE IF m[1] + 1 < 2 * Limb THEN [s |-> s, e |-> e, h |-> m[1] + 1, l |-> 0]
  ELSE [s |-> s, e |-> e + 1, h |-> Limb, l |-> 0]

\* RoundNorm for a non-zero value of len significant bits.
RoundLen(s, h, l, sticky, scale, len) ==
  IF len <= 53 THEN Normal(s, Shl2(h, l, 53 - len), scale + len - 1)
  ELSE RoundUp(s, Shr2(h, l, len - 53), sticky, scale + len - 1)

\* The double nearest to (-1)^s * (h * Limb + l + frac) * 2^scale, where
\* 0 <= frac < 1 and frac > 0 exactly when sticky.
RoundNorm(s, h, l, sticky, scale) ==
  IF h = 0 /\ l = 0 THEN DZero
  ELSE RoundLen(s, h, l, sticky, scale, BitLen2(h, l))

\* static_cast<double>(n) of an unsigned integer n < 2^31: exact.
DFromInt(n) == RoundNorm(0, n \div Limb, n % Limb, FALSE, 0)

DNeg(x) == IF IsZero(x) THEN x ELSE [x EXCEPT !.s = 1 - x.s]

DAbs(x) == [x EXCEPT !.s = 0]

\* |x| < |y|
MagLess(x, y) ==
  IF IsZero(y) THEN FALSE
  ELSE IF IsZero(x) THEN TRUE
  ELSE \/ x.e < y.e
       \/ x.e = y.e /\ x.h < y.h
       \/ x.e = y.e /\ x.h = y.h /\ x.l < y.l

\* x < y
DLess(x, y) ==
  IF x.s = 1 /\ y.s = 0 THEN ~(IsZero(x) /\ IsZero(y))
  ELSE IF x.s = 0 /\ y.s = 1 THEN FALSE
  ELSE IF x.s = 0 THEN MagLess(x, y)
  ELSE MagLess(y, x)

\* x <= y (no NaN arises in the modelled paths)
DLeq(x, y) == ~DLess(y, x)

\* The significand times 8 (three guard bits), as two limbs.
Guarded(x) == <<x.h * 8 + (x.l * 8) \div Limb, (x.l * 8) % Limb>>

\* The guarded significand of y shifted right by k bits, as Shr2 gives it.
AlignTo(y, k) == Shr2(Guarded(y)[1], Guarded(y)[2], k)

\* X + Y on two limbs.
Sum2(X, Y) ==
  <<X[1] + Y[1] + (X[2] + Y[2]) \div Limb, (X[2] + Y[2]) % Limb>>

\* X - Y - sub on two limbs, sub the borrow for bits of Y shifted out.
Diff2(X, Y, sub) ==
  IF X[2] < Y[2] + sub THEN <<X[1] - Y[1] - 1, X[2] + Limb - Y[2] - sub>>
  ELSE <<X[1] - Y[1], X[2] - Y[2] - sub>>

RoundPair(s, m, sticky, scale) == RoundNorm(s, m[1], m[2], sticky, scale)

\* X + Y or X - Y for aligned guarded significands, rounded.
AddAligned(s, X, Y, subtract, scale) ==
  RoundPair(s,
            IF subtract THEN Diff2(X, Y, IF Y[3] # 0 THEN 1 ELSE 0)
            ELSE Sum2(X, Y),
            Y[3] # 0, scale)

\* |x| + |y| or |x| - |y| for finite non-zero x, y with |x| >= |y|,
\* rounded, with sign s.
AddMag(s, x, y, subtract) ==
  IF x.e - y.e > 56 THEN [x EXCEPT !.s = s]
  ELSE AddAligned(s, Guarded(x), AlignTo(y, x.e - y.e), subtract, x.e - 55)

\* big + small for finite non-zero values with |big| >= |small|.
AddOrdered(big, small) == AddMag(big.s, big, small, big.s # small.s)

\* x + y
DAdd(x, y) ==
  IF IsInf(x) THEN x
  ELSE IF IsInf(y) THEN y
  ELSE IF IsZero(x) THEN y
  ELSE IF IsZero(y) THEN x
  ELSE IF x.s # y.s /\ ~MagLess(x, y) /\ ~MagLess(y, x) THEN DZero
  ELSE AddOrdered(IF MagLess(x, y) THEN y ELSE x,
                  IF MagLess(x, y) THEN x ELSE y)

\* x - y
DSub(x, y) == DAdd(x, DNeg(y))

\* One step of restoring division of r by d: st = <<rh, rl, qh, ql, n>>
\* holds the running remainder, the quotient bits so far and the number
\* of bits still to produce.
DivStep(st, dh, dl) ==
  LET ge  == st[1] > dh \/ (st[1] = dh /\ st[2] >= dl)
      bor == IF ge /\ st[2] < dl THEN 1 ELSE 0
      sh  == IF ge THEN st[1] - dh - bor ELSE st[1]
      sl  == IF ge THEN st[2] + bor * Limb - dl ELSE st[2]
      q2  == 2 * st[4] + (IF ge THEN 1 ELSE 0)
  IN  << 2 * sh + (2 * sl) \div Limb, (2 * sl) % Limb,
         2 * st[3] + q2 \div Limb, q2 % Limb, st[5] - 1 >>

RECURSIVE DivBits(_, _, _)
DivBits(st, dh, dl) ==
  IF st[5] = 0 THEN st ELSE DivBits(DivStep(st, dh, dl), dh, dl)

\* The quotient bits q[3], q[4] rounded; a remainder left makes it sticky.
QuotRound(s, q, scale) ==
  RoundNorm(s, q[3], q[4], q[1] # 0 \/ q[2] # 0, scale)

\* x / y
DDiv(x, y) ==
  IF IsZero(x) \/ IsInf(y) THEN DZero
  ELSE IF IsZero(y) \/ IsInf(x)
  THEN [DInf EXCEPT !.s = IF x.s = y.s THEN 0 ELSE 1]
  ELSE QuotRound(IF x.s = y.s THEN 0 ELSE 1,
                 DivBits(<<x.h, x.l, 0, 0, 55>>, y.h, y.l),
                 x.e - y.e - 54)

\* m[1] * Limb + m[2], plus one when something was shifted out.
CeilOf(m) == m[1] * Limb + m[2] + (IF m[3] # 0 THEN 1 ELSE 0)

\* The smallest integer >= x, for 0 <= x < 2^31.
DCeil(x) ==
  IF IsZero(x) THEN 0
  ELSE IF x.e < 0 THEN 1
  ELSE CeilOf(Shr2(x.h, x.l, 52 - x.e))

\* ------------------------------------------------------------------------
\* uint32_t values as two 16-bit halves <<hi, lo>>, and the conversions the
\* code applies to them.
\* ------------------------------------------------------------------------
Half == 2^16

\* Conversion of an int to uint32_t (modulo 2^32).
ToUint32(n) ==
  IF n >= 0 THEN <<n \div Half, n % Half>>
  ELSE <<Half - 1 - ((-n - 1) \div Half), Half - 1 - ((-n - 1) % Half)>>

\* a < b on uint32_t
U32Less(a, b) == a[1] < b[1] \/ (a[1] = b[1] /\ a[2] < b[2])

\* Conversion of a uint32_t to the signed 32-bit slot index of
\* SensorAddrGroup (two's complement).
ToInt32(u) ==
  IF u[1] >= Half \div 2 THEN (u[1] - Half) * Half + u[2]
  ELSE u[1] * Half + u[2]

\* ------------------------------------------------------------------------
\* Program constants.
\* ------------------------------------------------------------------------
ONE_MB == 1024 * 1024

MAX_SIM_FRQ == 1000

\* The double the literal 0.05 denotes: the double nearest to 5/100.
kError == DDiv(DFromInt(5), DFromInt(100))

\* ------------------------------------------------------------------------
\* Bounds and inputs of the model.
\* ------------------------------------------------------------------------
\* The frequencies SpecFreq configures are 0..MaxFreq.
MaxFreq == 1100

\* Calls of PublishSensorData in one run of Spec.
MaxCalls == 3

\* Calls of PublishSensorData, and emitting calls, in one run of SpecDivider.
MaxDividerCalls == 1010

MaxEmits == 8

\* Calls of PublishSensorData in one run of SpecDrift.
MaxDriftCalls == 200

\* Advances (single emitting calls, or runs of them within a binade) that
\* bring a long run to its start state.
MaxAdvances == 1048576

\* Worker threads of the executor.
NumWorkers == 2

Workers == 1..NumWorkers

\* The sensors of the MuJoCo model m_, in id order (id = position - 1).
ModelSensors == <<"jointpos1", "jointvel1">>

Slots == 0..(Len(ModelSensors) - 1)

\* Values d_->sensordata[i] takes (standing for doubles; 0 is 0.0).
SensorValues == {0, 1}

Joint(n, p, v) ==
  [name |-> n, bind_jointpos_sensor |-> p, bind_jointvel_sensor |-> v]

\* Joint configurations (options_node["joints"]).
JointInputs ==
  { <<>>,
    <<Joint("joint1", "jointpos1", "jointvel1")>>,
    <<Joint("joint1", "", "")>>,
    <<Joint("joint1", "", "unknown_vel")>>,
    <<Joint("joint1", "unknown_pos", "jointvel1")>>,
    <<Joint("joint1", "jointpos1", "jointvel1"), Joint("joint2", "", "")>> }

\* Channel frequencies Spec configures.
SetupFreqs == {0, 333, 500, 1000, 1001}

NoTask == [seq |-> 0, state_array |-> <<>>]

NoError == [kind |-> "none", frq |-> 0, name |-> ""]

VARIABLES
  pc,                  \* "constructed", "initialized", "failed", "crashed"
  error,               \* what Initialize threw
  options_node,        \* the configured joints
  options_,            \* options_.joints
  channel_frq_,
  avg_interval_base_,
  avg_interval_,
  conter_,
  sensor_addr_vec_,
  name_vec_,
  joint_num_,
  registered,          \* RegisterPublishType succeeded
  sensordata,          \* d_->sensordata
  tasks,               \* closures handed to executor_.Execute, not yet started
  running,             \* the closure each worker holds
  published,           \* the messages handed to Publish, in order
  nsubmitted,          \* closures handed to executor_.Execute so far
  ncalls,              \* calls of PublishSensorData so far, less
                       \* call_base * ONE_MB
  call_base,           \* 0, but in runs that start so late that the number
                       \* of calls made is beyond TLC's integers
  sensor_reads,        \* reads of d_->sensordata by PublishSensorData so far
  first_call,          \* index of the first call the run records
  emit_ticks,          \* indices of the recorded calls that emitted
  ref,                 \* reference divider: no renormalization since the
                       \* start (where call_base = 0) or the run's start
  ref_ticks,           \* indices of the calls at which the reference emitted
  captured             \* d_->sensordata as it was when closure seq was made

vars == << pc, error, options_node, options_, channel_frq_, avg_interval_base_,
           avg_interval_, conter_, sensor_addr_vec_, name_vec_, joint_num_,
           registered, sensordata, tasks, running, published, nsubmitted,
           ncalls, call_base, sensor_reads, first_call, emit_ticks, ref,
           ref_ticks, captured >>

\* ------------------------------------------------------------------------
\* CheckFrequency
\* ------------------------------------------------------------------------
\* A range check that lets MAX_SIM_FRQ + 1 through.
FrequencyInRangeLoose(f) == f <= MAX_SIM_FRQ + 1

\* channel_frq_ <= MAX_SIM_FRQ
FrequencyInRange(f) == f <= MAX_SIM_FRQ

\* static_cast<double>(MAX_SIM_FRQ) / static_cast<double>(channel_frq_)
IntervalBase(f) == DDiv(DFromInt(MAX_SIM_FRQ), DFromInt(f))

lower_interval(f) == MAX_SIM_FRQ \div f

upper_interval(f) == lower_interval(f) + 1

\* The absolute error, not divided by the base.
AbsError(interval, base) == DAbs(DSub(DFromInt(interval), base))

\* std::abs(interval - avg_interval_base_) / avg_interval_base_
RelError(interval, base) ==
  DDiv(DAbs(DSub(DFromInt(interval), base)), base)

lower_error(f) == RelError(lower_interval(f), IntervalBase(f))

upper_error(f) == RelError(upper_interval(f), IntervalBase(f))

\* A precision check satisfied by either interval alone.
PrecisionOkEither(f) ==
  DLeq(RelError(MAX_SIM_FRQ \div f, IntervalBase(f)), kError)
    \/ DLeq(RelError(MAX_SIM_FRQ \div f + 1, IntervalBase(f)), kError)

\* lower_error <= kError && upper_error <= kError
PrecisionOk(f) == DLeq(lower_error(f), kError) /\ DLeq(upper_error(f), kError)

\* The ways CheckFrequency can end for channel frequency f: "none" (it
\* returns), the error it throws, or "crash".  For f = 0 the division of
\* line 138 gives +infinity and MAX_SIM_FRQ % 0 is undefined behaviour: the
\* build traps (SIGFPE on x86), or its divide instruction yields a
\* remainder of MAX_SIM_FRQ and the precision check then fails on NaN
\* errors (AArch64, RISC-V).
CheckFrequency(f) ==
  IF ~FrequencyInRange(f) THEN {"ExceedsMaxFrequency"}
  ELSE IF f = 0 THEN {"crash", "FrequencyPrecision"}
  ELSE IF MAX_SIM_FRQ % f = 0 THEN {"none"}
  ELSE IF PrecisionOk(f) THEN {"none"}
  ELSE {"FrequencyPrecision"}

\* The values avg_interval_base_ can hold when CheckFrequency ends with out,
\* old being its value before: untouched when the range check throws, the
\* quotient of line 138 when line 140 is passed.  When MAX_SIM_FRQ % 0
\* traps, the store of line 138 has happened (unoptimised builds) or has
\* not (optimising builds schedule the trapping division ahead of it,
\* which the undefined behaviour of line 140 permits).
StoredIntervalBase(f, out, old) ==
  IF ~FrequencyInRange(f) THEN {old}
  ELSE IF out = "crash" THEN {old, IntervalBase(f)}
  ELSE {IntervalBase(f)}

\* The frequencies CheckFrequency accepts.
AcceptedFreqs == {f \in 1..MAX_SIM_FRQ : "none" \in CheckFrequency(f)}

\* <<frequency, emitting calls already made>> at which SpecDivider starts:
\* every accepted frequency from the first call, and 3 Hz and 7 Hz late in
\* a run, shortly before conter_ passes ONE_MB and after it has.
DividerInputs ==
  {<<f, 0>> : f \in AcceptedFreqs}
    \cup {<<3, 3145>>, <<7, 7341>>, <<7, 8154>>}

\* <<frequency, emitting calls already made>> at which SpecDrift starts:
\* 87 Hz after some 8.5e9 calls (99 days of ticks at 1000 Hz).
DriftInputs == {<<87, 741637150>>}

\* Emitting calls over which the start of SpecDrift compares the divider
\* advanced by whole binades with the divider advanced call by call: past
\* the first renormalization at 87 Hz.
DriftCompared == 95000

\* ------------------------------------------------------------------------
\* RegisterSensorAddr
\* ------------------------------------------------------------------------
\* mj_name2id(m_, mjOBJ_SENSOR, name): the sensor's id, or -1.
mj_name2id(name) ==
  IF \E i \in 1..Len(ModelSensors) : ModelSensors[i] = name
  THEN (CHOOSE i \in 1..Len(ModelSensors) : ModelSensors[i] = name) - 1
  ELSE -1

\* An index that is 0, not -1, for an empty name.
SensorIdxZero(name) ==
  IF name # "" THEN ToUint32(mj_name2id(name)) ELSE ToUint32(0)

\* const uint32_t idx = !name.empty() ? mj_name2id(...) : -1
SensorIdx(name) ==
  IF name # "" THEN ToUint32(mj_name2id(name)) ELSE ToUint32(-1)

\* !name.empty() && idx < 0, idx being a uint32_t
InvalidSensor(name, idx) == name # "" /\ U32Less(idx, ToUint32(0))

\* The loop over options_.joints, appending to the two vectors; it stops at
\* the first throw, leaving what it appended so far.
RECURSIVE RegisterJoints(_, _, _)
RegisterJoints(joints, addrs, names) ==
  IF joints = <<>>
  THEN [error |-> NoError, sensor_addr_vec |-> addrs, name_vec |-> names]
  ELSE
    LET joint   == Head(joints)
        pos_idx == SensorIdx(joint.bind_jointpos_sensor)
        vel_idx == SensorIdx(joint.bind_jointvel_sensor)
    IN  IF InvalidSensor(joint.bind_jointpos_sensor, pos_idx) THEN
          [error |-> [kind |-> "InvalidPosSensor", frq |-> 0,
                      name |-> joint.bind_jointpos_sensor],
           sensor_addr_vec |-> addrs, name_vec |-> names]
        ELSE IF InvalidSensor(joint.bind_jointvel_sensor, vel_idx) THEN
          [error |-> [kind |-> "InvalidVelSensor", frq |-> 0,
                      name |-> joint.bind_jointvel_sensor],
           sensor_addr_vec |-> addrs, name_vec |-> names]
        ELSE
          RegisterJoints(Tail(joints),
            Append(addrs, [jointpos_addr |-> ToInt32(pos_idx),
                           jointvel_addr |-> ToInt32(vel_idx)]),
            Append(names, joint.name))

\* ------------------------------------------------------------------------
\* The rate divider of PublishSensorData
\* ------------------------------------------------------------------------
\* A test that also skips when the counter equals the threshold.
ShouldSkipOrEqual(c, a) == DLeq(DFromInt(c), a)

\* conter_ < avg_interval_ (the counter converted to double)
ShouldSkip(c, a) == DLess(DFromInt(c), a)

\* A threshold restarted from the counter instead of accumulated.
NextThresholdFromCounter(c, a, b) == DAdd(DFromInt(c), b)

\* avg_interval_ += avg_interval_base_
NextThreshold(c, a, b) == DAdd(a, b)

\* A renormalization that reduces the threshold and leaves the counter.
RenormalizeThresholdOnly(c, a) ==
  IF c > ONE_MB THEN [conter |-> c, avg |-> DSub(a, DFromInt(ONE_MB))]
  ELSE [conter |-> c, avg |-> a]

\* if (conter_ > ONE_MB) { avg_interval_ -= ONE_MB; conter_ -= ONE_MB; }
Renormalize(c, a) ==
  IF c > ONE_MB THEN [conter |-> c - ONE_MB, avg |-> DSub(a, DFromInt(ONE_MB))]
  ELSE [conter |-> c, avg |-> a]

\* The counters after the threshold moved to a1: renormalized by the code,
\* left alone by the reference divider (renorm = FALSE).
AfterAdvance(c, a1, renorm) ==
  IF renorm THEN Renormalize(c, a1) ELSE [conter |-> c, avg |-> a1]

Emitted(r) == [conter |-> r.conter, avg |-> r.avg, emit |-> TRUE]

\* One call on counters c (conter_) and a (avg_interval_) with interval b.
DividerStep(c, a, b, renorm) ==
  IF ShouldSkip(c, a) THEN [conter |-> c + 1, avg |-> a, emit |-> FALSE]
  ELSE Emitted(AfterAdvance(c + 1, NextThreshold(c + 1, a, b), renorm))

\* The divider state r after a call, with the number of calls made so far.
WithCalls(r, calls) == [conter |-> r.conter, avg |-> r.avg, calls |-> calls]

\* The calls up to and including the next emitting one, on a divider state
\* [conter, avg, calls]: the calls before it only count up to the threshold.
EmitStep(st, b, renorm) ==
  LET up == DCeil(st.avg)
      c  == IF st.conter >= up THEN st.conter ELSE up
  IN  WithCalls(DividerStep(c, st.avg, b, renorm),
                st.calls + (c - st.conter) + 1)

\* The divider as constructed, no call made.
DividerStart == [conter |-> 0, avg |-> DZero, calls |-> 0]

\* The divider state after job.n more emitting calls from job.st.
RECURSIVE AfterEmits(_, _, _)
AfterEmits(job, b, renorm) ==
  IF job.n = 0 THEN job.st
  ELSE IF job.n = 1 THEN EmitStep(job.st, b, renorm)
  ELSE AfterEmits(
         [st |-> AfterEmits([st |-> job.st, n |-> job.n \div 2], b, renorm),
          n  |-> job.n - job.n \div 2],
         b, renorm)

\* ------------------------------------------------------------------------
\* The divider over long runs.  A divider state here is [conter, avg,
\* emits, renorms]: the counters, the emitting calls made so far and the
\* times the code has renormalized; the calls made so far are
\* renorms * ONE_MB + conter, every call adding 1 to conter_ and every
\* renormalization taking ONE_MB from it.
\* ------------------------------------------------------------------------
LongStart == [conter |-> 0, avg |-> DZero, emits |-> 0, renorms |-> 0]

Counted(r, emits, renorms) ==
  [conter |-> r.conter, avg |-> r.avg, emits |-> emits, renorms |-> renorms]

\* The calls up to and including the next emitting one, which is made
\* with conter_ = c.
LongStepAt(st, c, b) ==
  Counted(DividerStep(c, st.avg, b, TRUE), st.emits + 1,
          st.renorms + (IF c + 1 > ONE_MB THEN 1 ELSE 0))

LongStep(st, b) ==
  LongStepAt(st, IF st.conter >= DCeil(st.avg) THEN st.conter
                 ELSE DCeil(st.avg), b)

\* While avg_interval_ stays in [2^e, 2^(e+1)) its doubles are the
\* multiples of u = 2^(e-52), so avg_interval_ += avg_interval_base_ adds
\* the multiple of u nearest to the interval each time.  IntervalUnits is
\* that multiple in units of u, from the interval's significand shifted
\* right by k = e - b.e bits (sh = Shr2 of it).
IntervalUnits(sh) ==
  IF sh[3] = 3 THEN Sum2(<<sh[1], sh[2]>>, <<0, 1>>) ELSE <<sh[1], sh[2]>>

\* M + m * R on two limbs, for m < 2^17 and a result below 2^53.
MulAdd(M, R, m) ==
  LET p0  == m * (R[2] % 2^13)
      p1  == m * (R[2] \div 2^13)
      low == p0 + (p1 % 2^13) * 2^13 + M[2]
  IN  <<M[1] + m * R[1] + p1 \div 2^13 + low \div Limb, low % Limb>>

\* avg_interval_ after m additions of R units, within its binade.
AvgAfter(a, R, m) == Normal(0, MulAdd(<<a.h, a.l>>, R, m), a.e)

\* x * 2^k
Scaled(x, k) == [x EXCEPT !.e = x.e + k]

\* A number m of emitting calls after which avg_interval_ is still below
\* top = 2^(e+1): m * ceil(256 b) <= 256 (top - ceil(avg)), less one.
JumpRoom(st, b) ==
  ((2^(st.avg.e + 1) - DCeil(st.avg)) * 256) \div DCeil(Scaled(b, 8)) - 1

Least(m, cap) == IF m < cap THEN m ELSE cap

\* The same, at most cap; 0 when the additions are not all by the same
\* multiple of u (a tie in the rounding) or when the counter may pass
\* ONE_MB meanwhile.
JumpLen(st, b, cap) ==
  IF IsZero(st.avg) \/ st.avg.e > 19 \/ st.avg.e < b.e + 2 \/ b.e < 1
       \/ Shr2(b.h, b.l, st.avg.e - b.e)[3] = 2
  THEN 0
  ELSE Least(JumpRoom(st, b), cap)

\* The state after m emitting calls made while avg_interval_ stays in one
\* binade, prev being the threshold before the last of them: that call is
\* made with conter_ = ceil(prev).
Jump(st, R, m, prev) ==
  [conter  |-> DCeil(prev) + 1,
   avg     |-> AvgAfter(prev, R, 1),
   emits   |-> st.emits + m,
   renorms |-> st.renorms]

\* m emitting calls at once where that is the same as one at a time,
\* else one emitting call.
JumpOrStep(st, b, R, m, prev) ==
  IF st.conter + m - 1 <= DCeil(prev) THEN Jump(st, R, m, prev)
  ELSE LongStep(st, b)

JumpBy(st, b, R, m) == JumpOrStep(st, b, R, m, AvgAfter(st.avg, R, m - 1))

AdvanceBy(st, b, m) ==
  IF m >= 2
  THEN JumpBy(st, b, IntervalUnits(Shr2(b.h, b.l, st.avg.e - b.e)), m)
  ELSE LongStep(st, b)

\* Emitting calls towards number emits; nothing once it is made.
Advance(st, b, emits) ==
  IF st.emits >= emits THEN st
  ELSE AdvanceBy(st, b, JumpLen(st, b, emits - st.emits))

\* job.n times Advance from job.st.
RECURSIVE AdvanceTimes(_, _)
AdvanceTimes(job, b) ==
  IF job.n = 0 THEN job.st
  ELSE IF job.n = 1 THEN Advance(job.st, b, job.emits)
  ELSE AdvanceTimes(
         [st    |-> AdvanceTimes([st |-> job.st, emits |-> job.emits,
                                  n |-> job.n \div 2], b),
          emits |-> job.emits,
          n     |-> job.n - job.n \div 2],
         b)

\* The state after the emitting call number emits of a run with interval
\* b, when MaxAdvances times Advance get there.
LongRun(emits, b) ==
  AdvanceTimes([st |-> LongStart, emits |-> emits, n |-> MaxAdvances], b)

\* A snapshot with position and velocity exchanged.
SnapshotSwapped(addrs, n, data) ==
  [i \in 1..n |->
    [jointpos_state |-> IF addrs[i].jointvel_addr >= 0
                        THEN data[addrs[i].jointvel_addr] ELSE 0,
     jointvel_state |-> IF addrs[i].jointpos_addr >= 0
                        THEN data[addrs[i].jointpos_addr] ELSE 0]]

\* The snapshot: state_array[i] for every joint.
Snapshot(addrs, n, data) ==
  [i \in 1..n |->
    [jointpos_state |-> IF addrs[i].jointpos_addr >= 0
                        THEN data[addrs[i].jointpos_addr] ELSE 0,
     jointvel_state |-> IF addrs[i].jointvel_addr >= 0
                        THEN data[addrs[i].jointvel_addr] ELSE 0]]

\* The reads of d_->sensordata one snapshot makes: one for each stored
\* index that is not negative.
SensorReads(addrs, n) ==
  Cardinality({i \in 1..n : addrs[i].jointpos_addr >= 0})
    + Cardinality({i \in 1..n : addrs[i].jointvel_addr >= 0})

\* A message built from d_->sensordata as it is when the closure runs.
MessageFromBuffer(state_array) ==
  [i \in 1..joint_num_ |->
    [name |-> name_vec_[i],
     position |-> IF sensor_addr_vec_[i].jointpos_addr >= 0
                  THEN sensordata[sensor_addr_vec_[i].jointpos_addr] ELSE 0,
     velocity |-> IF sensor_addr_vec_[i].jointvel_addr >= 0
                  THEN sensordata[sensor_addr_vec_[i].jointvel_addr] ELSE 0]]

\* The JointState message the closure builds from its state_array.
Message(state_array) ==
  [i \in 1..joint_num_ |->
    [name |-> name_vec_[i],
     position |-> state_array[i].jointpos_state,
     velocity |-> state_array[i].jointvel_state]]

\* ------------------------------------------------------------------------
\* States after construction
\* ------------------------------------------------------------------------
\* A publisher constructed with channel frequency f and joints configured.
Constructed(f, joints) ==
  /\ pc = "constructed"
  /\ error = NoError
  /\ options_node = joints
  /\ options_ = <<>>
  /\ channel_frq_ = f
  /\ avg_interval_base_ = DFromInt(1)
  /\ avg_interval_ = DZero
  /\ conter_ = 0
  /\ sensor_addr_vec_ = <<>>
  /\ name_vec_ = <<>>
  /\ joint_num_ = 0
  /\ registered = FALSE
  /\ sensordata = [i \in Slots |-> 0]
  /\ tasks = <<>>
  /\ running = [w \in Workers |-> NoTask]
  /\ published = <<>>
  /\ nsubmitted = 0
  /\ ncalls = 0
  /\ first_call = 0
  /\ emit_ticks = <<>>
  /\ ref = [conter |-> 0, avg |-> DZero]
  /\ ref_ticks = <<>>
  /\ captured = <<>>
  /\ call_base = 0
  /\ sensor_reads = 0

Init == \E f \in SetupFreqs, joints \in JointInputs : Constructed(f, joints)

InitFreq ==
  \E f \in 0..MaxFreq :
    Constructed(f, <<Joint("joint1", "jointpos1", "jointvel1"),
                     Joint("joint2", "", "")>>)

\* A publisher whose Initialize succeeded with an accepted frequency and
\* that has since made the calls of PublishSensorData up to and including
\* its n-th emitting one; the run records the calls from that one on.
InitDivider ==
  \E in \in DividerInputs :
  \E f \in {in[1]}, n \in {in[2]} :
  \E b \in {IntervalBase(f)} :
  \E reg \in {RegisterJoints(<<Joint("joint1", "jointpos1", "jointvel1")>>,
                             <<>>, <<>>)},
     st \in {AfterEmits([st |-> DividerStart, n |-> n], b, TRUE)},
     rs \in {AfterEmits([st |-> DividerStart, n |-> n], b, FALSE)} :
        /\ "none" \in CheckFrequency(f)
        /\ f > 0
        /\ rs.calls = st.calls
        /\ pc = "initialized"
        /\ error = NoError
        /\ options_node = <<Joint("joint1", "jointpos1", "jointvel1")>>
        /\ options_ = options_node
        /\ channel_frq_ = f
        /\ avg_interval_base_ = b
        /\ avg_interval_ = st.avg
        /\ conter_ = st.conter
        /\ sensor_addr_vec_ = reg.sensor_addr_vec
        /\ name_vec_ = reg.name_vec
        /\ joint_num_ = Len(reg.sensor_addr_vec)
        /\ registered = TRUE
        /\ sensordata = [i \in Slots |-> 0]
        /\ tasks = <<>>
        /\ running = [w \in Workers |-> NoTask]
        /\ published = <<>>
        /\ nsubmitted = n
        /\ ncalls = st.calls
        /\ first_call = IF n = 0 THEN 0 ELSE st.calls - 1
        /\ emit_ticks = IF n = 0 THEN <<>> ELSE <<st.calls - 1>>
        /\ ref = [conter |-> rs.conter, avg |-> rs.avg]
        /\ ref_ticks = IF n = 0 THEN <<>> ELSE <<rs.calls - 1>>
        /\ captured = <<>>
        /\ call_base = 0
        /\ sensor_reads =
             n * SensorReads(reg.sensor_addr_vec, Len(reg.sensor_addr_vec))

\* The same late in a long run: the publisher after its n-th emitting
\* call, found by LongRun, which is first compared with the call-by-call
\* divider over DriftCompared emitting calls.  The calls made so far are
\* st.renorms * ONE_MB + st.conter; the reference divider, whose counter
\* would be that number, is started afresh from the code's counters.
InitDrift ==
  \E in \in DriftInputs :
  \E f \in {in[1]}, n \in {in[2]} :
  \E b \in {IntervalBase(f)} :
  \E reg \in {RegisterJoints(<<Joint("joint1", "jointpos1", "jointvel1")>>,
                             <<>>, <<>>)},
     st \in {LongRun(n, b)},
     near \in {LongRun(DriftCompared, b)},
     slow \in {AfterEmits([st |-> DividerStart, n |-> DriftCompared], b,
                          TRUE)} :
        /\ "none" \in CheckFrequency(f)
        /\ f > 0
        /\ near.emits = DriftCompared
        /\ near.renorms > 0
        /\ near.conter = slow.conter
        /\ near.avg = slow.avg
        /\ near.renorms * ONE_MB + near.conter = slow.calls
        /\ st.emits = n
        /\ pc = "initialized"
        /\ error = NoError
        /\ options_node = <<Joint("joint1", "jointpos1", "jointvel1")>>
        /\ options_ = options_node
        /\ channel_frq_ = f
        /\ avg_interval_base_ = b
        /\ avg_interval_ = st.avg
        /\ conter_ = st.conter
        /\ sensor_addr_vec_ = reg.sensor_addr_vec
        /\ name_vec_ = reg.name_vec
        /\ joint_num_ = Len(reg.sensor_addr_vec)
        /\ registered = TRUE
        /\ sensordata = [i \in Slots |-> 0]
        /\ tasks = <<>>
        /\ running = [w \in Workers |-> NoTask]
        /\ published = <<>>
        /\ nsubmitted = n
        /\ ncalls = st.conter
        /\ call_base = st.renorms
        /\ sensor_reads =
             n * SensorReads(reg.sensor_addr_vec, Len(reg.sensor_addr_vec))
        /\ first_call = st.conter - 1
        /\ emit_ticks = <<st.conter - 1>>
        /\ ref = [conter |-> st.conter, avg |-> st.avg]
        /\ ref_ticks = <<st.conter - 1>>
        /\ captured = <<>>

\* ------------------------------------------------------------------------
\* Actions
\* ------------------------------------------------------------------------
\* Initialize: options, CheckFrequency, RegisterSensorAddr,
\* RegisterPublishType (ret is what the channel framework answers).
Initialize ==
  /\ pc = "constructed"
  /\ \E out \in CheckFrequency(channel_frq_), ret \in BOOLEAN :
       LET reg     == RegisterJoints(options_node, sensor_addr_vec_, name_vec_)
           checked == out = "none"
           bound   == checked /\ reg.error = NoError
       IN  /\ avg_interval_base_' \in
                StoredIntervalBase(channel_frq_, out, avg_interval_base_)
           /\ sensor_addr_vec_' =
                IF checked THEN reg.sensor_addr_vec ELSE sensor_addr_vec_
           /\ name_vec_' = IF checked THEN reg.name_vec ELSE name_vec_
           /\ joint_num_' =
                IF bound THEN Len(reg.sensor_addr_vec) ELSE joint_num_
           /\ registered' = (bound /\ ret)
           /\ pc' = IF out = "crash" THEN "crashed"
                    ELSE IF bound /\ ret THEN "initialized" ELSE "failed"
           /\ error' =
                IF out = "crash" THEN NoError
                ELSE IF ~checked
                  THEN [kind |-> out, frq |-> channel_frq_, name |-> ""]
                ELSE IF ~bound THEN reg.error
                ELSE IF ~ret
                  THEN [kind |-> "RegisterPublishType", frq |-> 0, name |-> ""]
                ELSE NoError
  /\ options_' = options_node
  /\ UNCHANGED << options_node, channel_frq_, avg_interval_, conter_,
                  sensordata, tasks, running, published, nsubmitted, ncalls,
                  first_call, emit_ticks, ref, ref_ticks, captured,
                  call_base, sensor_reads >>

\* One call of PublishSensorData; the reference divider takes the same call.
PublishSensorData ==
  /\ pc = "initialized"
  /\ \E r \in {DividerStep(conter_, avg_interval_, avg_interval_base_, TRUE)},
        q \in {DividerStep(ref.conter, ref.avg, avg_interval_base_, FALSE)} :
         /\ conter_' = r.conter
         /\ avg_interval_' = r.avg
         /\ tasks' =
              IF r.emit
              THEN Append(tasks,
                     [seq |-> nsubmitted + 1,
                      state_array |->
                        Snapshot(sensor_addr_vec_, joint_num_, sensordata)])
              ELSE tasks
         /\ nsubmitted' = IF r.emit THEN nsubmitted + 1 ELSE nsubmitted
         /\ emit_ticks' = IF r.emit THEN Append(emit_ticks, ncalls)
                          ELSE emit_ticks
         /\ ref' = [conter |-> q.conter, avg |-> q.avg]
         /\ ref_ticks' = IF q.emit THEN Append(ref_ticks, ncalls)
                         ELSE ref_ticks
         /\ captured' = IF r.emit
                        THEN captured @@ (nsubmitted + 1 :> sensordata)
                        ELSE captured
         /\ sensor_reads' = IF r.emit
                            THEN sensor_reads
                                   + SensorReads(sensor_addr_vec_, joint_num_)
                            ELSE sensor_reads
  /\ ncalls' = ncalls + 1
  /\ UNCHANGED << pc, error, options_node, options_, channel_frq_,
                  avg_interval_base_, sensor_addr_vec_, name_vec_, joint_num_,
                  registered, sensordata, running, published, first_call,
                  call_base >>

\* The simulation steps: mj_step rewrites d_->sensordata.
MjStep ==
  /\ pc = "initialized"
  /\ \E d \in [Slots -> SensorValues] : d # sensordata /\ sensordata' = d
  /\ UNCHANGED << pc, error, options_node, options_, channel_frq_,
                  avg_interval_base_, avg_interval_, conter_, sensor_addr_vec_,
                  name_vec_, joint_num_, registered, tasks, running, published,
                  nsubmitted, ncalls, first_call, emit_ticks, ref, ref_ticks, captured,
                  call_base, sensor_reads >>

\* A worker that starts the oldest closure and leaves it in the queue.
WorkerTakeKeep(w) ==
  /\ running[w] = NoTask
  /\ tasks # <<>>
  /\ running' = [running EXCEPT ![w] = Head(tasks)]
  /\ UNCHANGED << pc, error, options_node, options_, channel_frq_,
                  avg_interval_base_, avg_interval_, conter_, sensor_addr_vec_,
                  name_vec_, joint_num_, registered, sensordata, tasks,
                  published, nsubmitted, ncalls, first_call, emit_ticks, ref,
                  ref_ticks, captured, call_base, sensor_reads >>

\* An idle worker of the executor starts the oldest closure.
WorkerTake(w) ==
  /\ running[w] = NoTask
  /\ tasks # <<>>
  /\ running' = [running EXCEPT ![w] = Head(tasks)]
  /\ tasks' = Tail(tasks)
  /\ UNCHANGED << pc, error, options_node, options_, channel_frq_,
                  avg_interval_base_, avg_interval_, conter_, sensor_addr_vec_,
                  name_vec_, joint_num_, registered, sensordata, published,
                  nsubmitted, ncalls, first_call, emit_ticks, ref, ref_ticks, captured,
                  call_base, sensor_reads >>

\* A closure that restarts the divider once it has published.
WorkerPublishRestarts(w) ==
  /\ running[w] # NoTask
  /\ published' = Append(published,
                    [seq |-> running[w].seq,
                     data |-> Message(running[w].state_array)])
  /\ running' = [running EXCEPT ![w] = NoTask]
  /\ conter_' = 0
  /\ avg_interval_' = DZero
  /\ UNCHANGED << pc, error, options_node, options_, channel_frq_,
                  avg_interval_base_, sensor_addr_vec_, name_vec_, joint_num_,
                  registered, sensordata, tasks, nsubmitted, ncalls,
                  first_call, emit_ticks, ref, ref_ticks, captured,
                  call_base, sensor_reads >>

\* The worker runs the closure: builds the JointState and calls Publish.
WorkerPublish(w) ==
  /\ running[w] # NoTask
  /\ published' = Append(published,
                    [seq |-> running[w].seq,
                     data |-> Message(running[w].state_array)])
  /\ running' = [running EXCEPT ![w] = NoTask]
  /\ UNCHANGED << pc, error, options_node, options_, channel_frq_,
                  avg_interval_base_, avg_interval_, conter_, sensor_addr_vec_,
                  name_vec_, joint_num_, registered, sensordata, tasks,
                  nsubmitted, ncalls, first_call, emit_ticks, ref, ref_ticks, captured,
                  call_base, sensor_reads >>

\* ------------------------------------------------------------------------
\* Specifications
\* ------------------------------------------------------------------------
\* The publisher's life: setup, then ticks, simulation steps and workers.
Next ==
  \/ Initialize
  \/ MjStep
  \/ ncalls < MaxCalls /\ PublishSensorData
  \/ \E w \in Workers : WorkerTake(w)
  \/ \E w \in Workers : WorkerPublish(w)

Spec == Init /\ [][Next]_vars

\* Setup, ticks and the hand-over to an executor that keeps running: a
\* worker that can start or finish a closure eventually does.
InitExecutor ==
  \E f \in {500, MAX_SIM_FRQ} :
    Constructed(f, <<Joint("joint1", "jointpos1", "jointvel1")>>)

SpecExecutor ==
  /\ InitExecutor
  /\ [][Next]_vars
  /\ \A w \in Workers : WF_vars(WorkerTake(w)) /\ WF_vars(WorkerPublish(w))

\* Setup alone, over every frequency up to MaxFreq.
NextFreq == Initialize

SpecFreq == InitFreq /\ [][NextFreq]_vars

\* The divider alone, from the start and from late in a run.
NextDivider ==
  /\ ncalls - first_call < MaxDividerCalls
  /\ Len(emit_ticks) < MaxEmits
  /\ PublishSensorData

SpecDivider == InitDivider /\ [][NextDivider]_vars

\* The divider alone, late in a long run.
NextDrift ==
  /\ ncalls - first_call < MaxDriftCalls
  /\ PublishSensorData

SpecDrift == InitDrift /\ [][NextDrift]_vars

\* ------------------------------------------------------------------------
\* Properties of the rate divider (SpecDivider, SpecDrift)
\* ------------------------------------------------------------------------
\* Emitting calls among the recorded calls i .. ncalls - 1.
WindowCount(i) ==
  Cardinality({k \in 1..Len(emit_ticks) : emit_ticks[k] >= i})

\* round(n * f / MAX_SIM_FRQ), halves rounded up.
RoundedShare(n, f) == (2 * n * f + MAX_SIM_FRQ) \div (2 * MAX_SIM_FRQ)

Abs(n) == IF n < 0 THEN -n ELSE n

\* 1000 * (emitting calls so far) - f * (calls so far), the two products
\* taken apart in multiples of ONE_MB so that each part fits.
RunDeviation ==
  ONE_MB * (MAX_SIM_FRQ * (nsubmitted \div ONE_MB) - channel_frq_ * call_base)
    + MAX_SIM_FRQ * (nsubmitted % ONE_MB) - channel_frq_ * ncalls

\* C1: in every window of N consecutive calls of PublishSensorData, at any
\* accepted frequency f and wherever the window starts, the number of
\* emitting calls differs from N * f / 1000 by at most 1, and so is within
\* 1 of round(N * f / 1000).  The windows are those that end with the last
\* call made: the ones that start at a recorded call, the one that starts
\* at the first call of all and the one that starts at the second (the
\* first call always emits, conter_ and avg_interval_ both being 0).
C1_WindowCount ==
  /\ \A i \in first_call..ncalls :
       /\ Abs(WindowCount(i) * MAX_SIM_FRQ - (ncalls - i) * channel_frq_)
            <= MAX_SIM_FRQ
       /\ Abs(WindowCount(i) - RoundedShare(ncalls - i, channel_frq_)) <= 1
  /\ Abs(RunDeviation) <= MAX_SIM_FRQ
  /\ (ncalls > 0 \/ call_base > 0)
       => Abs(RunDeviation - MAX_SIM_FRQ + channel_frq_) <= MAX_SIM_FRQ

\* C2: the number of calls from one emitting call to the next is
\* floor(1000 / f) or ceil(1000 / f), nothing else.
C2_Gaps ==
  \A k \in 2..Len(emit_ticks) :
    emit_ticks[k] - emit_ticks[k - 1] \in
      { MAX_SIM_FRQ \div channel_frq_,
        (MAX_SIM_FRQ + channel_frq_ - 1) \div channel_frq_ }

\* A run in which both gaps occurred, floor and ceil being different.
C2_Witness ==
  /\ \E k \in 2..Len(emit_ticks) :
       emit_ticks[k] - emit_ticks[k - 1] = MAX_SIM_FRQ \div channel_frq_
  /\ \E k \in 2..Len(emit_ticks) :
       emit_ticks[k] - emit_ticks[k - 1] = MAX_SIM_FRQ \div channel_frq_ + 1

\* C3: the calls at which the divider emits are the calls at which the
\* reference divider (same rule, no renormalization) emits.
C3_RenormalizationTransparent == emit_ticks = ref_ticks

\* ------------------------------------------------------------------------
\* Properties of setup (Spec, SpecFreq)
\* ------------------------------------------------------------------------
\* The name is given and the model has no sensor of that name.
Unresolved(name) == name # "" /\ mj_name2id(name) = -1

\* CheckFrequency threw.
FrequencyRejected ==
  pc = "failed" /\ error.kind \in {"ExceedsMaxFrequency", "FrequencyPrecision"}

\* CheckFrequency returned.
FrequencyPassed ==
  \/ pc = "initialized"
  \/ pc = "failed" /\ error.kind \notin {"ExceedsMaxFrequency",
                                         "FrequencyPrecision"}

\* x lies strictly between lo / 1000 and hi / 1000.
Between(x, lo, hi) ==
  /\ DLess(DDiv(DFromInt(lo), DFromInt(1000)), x)
  /\ DLess(x, DDiv(DFromInt(hi), DFromInt(1000)))

\* C4: a joint whose position or velocity sensor name is given but unknown
\* to the model never gets an entry in the binding table: once Initialize
\* has run with such a joint, it has failed naming the sensor and its kind.
C4_UnknownSensorFails ==
  /\ \A i \in 1..Len(sensor_addr_vec_) :
       /\ ~Unresolved(options_node[i].bind_jointpos_sensor)
       /\ ~Unresolved(options_node[i].bind_jointvel_sensor)
  /\ ( /\ pc # "constructed"
       /\ FrequencyPassed
       /\ \E i \in 1..Len(options_node) :
            \/ Unresolved(options_node[i].bind_jointpos_sensor)
            \/ Unresolved(options_node[i].bind_jointvel_sensor) )
       => /\ pc = "failed"
          /\ error.kind \in {"InvalidPosSensor", "InvalidVelSensor"}
          /\ Unresolved(error.name)

\* C5 as stated: Initialize with channel frequency 333 is not stopped by
\* CheckFrequency.
C5_Validate333Succeeds ==
  (channel_frq_ = 333 /\ pc # "constructed") => FrequencyPassed

\* C5: CheckFrequency with channel frequency 333 computes the interval
\* 1000 / 333 (about 3.003) and then throws the precision error naming 333;
\* nothing is bound or registered.
C5_Validate333Rejected ==
  (channel_frq_ = 333 /\ pc # "constructed")
    => /\ pc = "failed"
       /\ error = [kind |-> "FrequencyPrecision", frq |-> 333, name |-> ""]
       /\ avg_interval_base_ = IntervalBase(333)
       /\ Between(avg_interval_base_, 3003, 3004)
       /\ sensor_addr_vec_ = <<>>
       /\ ~registered

C5_Witness ==
  /\ channel_frq_ = 333
  /\ pc = "failed"
  /\ error.kind = "FrequencyPrecision"
  /\ avg_interval_base_ # DFromInt(1)

\* C6 as stated: CheckFrequency with channel frequency 7 throws the
\* precision error.
C6_Validate7Fails ==
  (channel_frq_ = 7 /\ pc # "constructed")
    => pc = "failed" /\ error.kind = "FrequencyPrecision"

\* C6: CheckFrequency with channel frequency 7 returns without an error,
\* with the interval 1000 / 7 (about 142.86, between the candidate
\* intervals 142 and 143).
C6_Validate7Succeeds ==
  (channel_frq_ = 7 /\ pc # "constructed")
    => /\ FrequencyPassed
       /\ avg_interval_base_ = IntervalBase(7)
       /\ Between(avg_interval_base_, 142857, 142858)
       /\ lower_interval(7) = 142
       /\ upper_interval(7) = 143

C6_Witness ==
  /\ channel_frq_ = 7
  /\ pc = "initialized"
  /\ registered
  /\ joint_num_ = 2

\* C7: for a frequency f in 1..1000 that does not divide 1000,
\* CheckFrequency returns exactly when 1000 mod f <= 50 and
\* f - 1000 mod f <= 50, and otherwise throws the precision error naming f;
\* a frequency that divides 1000 always passes.
C7_PrecisionRule ==
  (pc # "constructed" /\ channel_frq_ \in 1..MAX_SIM_FRQ)
    => IF MAX_SIM_FRQ % channel_frq_ = 0
         \/ ( /\ MAX_SIM_FRQ % channel_frq_ <= 50
              /\ channel_frq_ - (MAX_SIM_FRQ % channel_frq_) <= 50 )
       THEN FrequencyPassed
       ELSE /\ pc = "failed"
            /\ error = [kind |-> "FrequencyPrecision", frq |-> channel_frq_,
                        name |-> ""]

\* C8: an initialized publisher has 0 < channel_frq_ <= 1000, and a
\* frequency outside that range, 0 included, is rejected with an error
\* before the interval is computed from it.
C8_FrequencyInRange ==
  /\ pc = "initialized" => (0 < channel_frq_ /\ channel_frq_ <= MAX_SIM_FRQ)
  /\ (pc # "constructed" /\ (channel_frq_ = 0 \/ channel_frq_ > MAX_SIM_FRQ))
       => /\ FrequencyRejected
          /\ avg_interval_base_ = DFromInt(1)

\* C9: with a channel frequency above 1000, Initialize fails with the
\* exceeds-maximum error naming the frequency; the interval is not computed
\* (the precision check is not reached), no sensor is bound and the publish
\* type is not registered.
C9_ExceedsMaxFrequency ==
  (pc # "constructed" /\ channel_frq_ > MAX_SIM_FRQ)
    => /\ pc = "failed"
       /\ error = [kind |-> "ExceedsMaxFrequency", frq |-> channel_frq_,
                   name |-> ""]
       /\ avg_interval_base_ = DFromInt(1)
       /\ sensor_addr_vec_ = <<>>
       /\ name_vec_ = <<>>
       /\ joint_num_ = 0
       /\ ~registered

C9_Witness ==
  /\ channel_frq_ = MAX_SIM_FRQ + 1
  /\ pc = "failed"
  /\ error.kind = "ExceedsMaxFrequency"
  /\ Len(options_) = 2

\* ------------------------------------------------------------------------
\* Properties of the hand-over to the executor (Spec)
\* ------------------------------------------------------------------------
\* C10: the messages reach Publish in the order their snapshots were handed
\* to executor_.Execute.
C10_PublishInSubmissionOrder ==
  \A i, j \in 1..Len(published) :
    i < j => published[i].seq < published[j].seq

\* The value sensor `name` had when closure seq was made; 0 (0.0) for an
\* unbound slot (empty name).
CapturedValue(seq, name) ==
  IF name = "" THEN 0 ELSE captured[seq][mj_name2id(name)]

\* C11: a published message has one record per configured joint, in
\* configuration order, each with the joint's name, and as position and
\* velocity the buffer value at the slot the sensor name resolved to, or 0
\* where the sensor name is empty.
C11_MessageContents ==
  \A k \in 1..Len(published) :
    /\ Len(published[k].data) = Len(options_node)
    /\ \A i \in 1..Len(options_node) :
         /\ published[k].data[i].name = options_node[i].name
         /\ ~Unresolved(options_node[i].bind_jointpos_sensor)
              => published[k].data[i].position =
                   CapturedValue(published[k].seq,
                                 options_node[i].bind_jointpos_sensor)
         /\ ~Unresolved(options_node[i].bind_jointvel_sensor)
              => published[k].data[i].velocity =
                   CapturedValue(published[k].seq,
                                 options_node[i].bind_jointvel_sensor)

\* A message for a bound joint1 with different position and velocity
\* followed by an unbound joint2.
C11_Witness ==
  \E k \in 1..Len(published) :
    published[k].data =
      << [name |-> "joint1", position |-> 1, velocity |-> 0],
         [name |-> "joint2", position |-> 0, velocity |-> 0] >>

\* C12: a closure's state_array holds the buffer values of the call that
\* made it, while it waits, while a worker runs it and in the message
\* published from it, whatever the simulation has written since.
C12_SnapshotImmutable ==
  /\ \A k \in 1..Len(tasks) :
       tasks[k].state_array =
         Snapshot(sensor_addr_vec_, joint_num_, captured[tasks[k].seq])
  /\ \A w \in Workers :
       running[w] # NoTask
         => running[w].state_array =
              Snapshot(sensor_addr_vec_, joint_num_, captured[running[w].seq])
  /\ \A k \in 1..Len(published) :
       published[k].data =
         Message(Snapshot(sensor_addr_vec_, joint_num_,
                          captured[published[k].seq]))

\* A message published from a snapshot taken before the simulation changed
\* the value the message carries, with a later call already made.
C12_Witness ==
  \E k \in 1..Len(published) :
    /\ published[k].seq < nsubmitted
    /\ published[k].data # <<>>
    /\ published[k].data[1].position = 1
    /\ sensordata[0] = 0
    /\ captured[published[k].seq] # captured[published[k].seq + 1]

\* Publish was called for closure seq.
Published(seq) == \E k \in 1..Len(published) : published[k].seq = seq

\* C13: Publish is called at most once for a submitted closure and never
\* for anything else, and with an executor that keeps running it is
\* eventually called for every submitted closure.
C13_PublishedExactlyOnce ==
  /\ [](\A k \in 1..Len(published) :
          /\ published[k].seq \in 1..nsubmitted
          /\ \A j \in 1..Len(published) :
               published[j].seq = published[k].seq => j = k)
  /\ \A seq \in 1..MaxCalls : (nsubmitted >= seq) ~> Published(seq)

\* Every closure of a run with several submissions has been published.
C13_Witness ==
  /\ nsubmitted = MaxCalls
  /\ Len(published) = nsubmitted
  /\ \A seq \in 1..nsubmitted : Published(seq)

\* C14: after every call of PublishSensorData, emitting or skipping,
\* conter_ is at most ONE_MB.
C14_CounterAtMostOneMB == conter_ <= ONE_MB

\* ------------------------------------------------------------------------
\* The effect of one call (SpecDivider)
\* ------------------------------------------------------------------------
\* The call skips: only conter_ changes, by one; the sensor buffer is
\* neither read nor written and nothing is handed to the executor.
SkipEffect ==
  /\ conter_' = conter_ + 1
  /\ UNCHANGED << avg_interval_, tasks, nsubmitted, sensordata,
                  sensor_reads >>

\* The call hands one closure with the snapshot of the buffer to the
\* executor.
SubmitsOne ==
  /\ nsubmitted' = nsubmitted + 1
  /\ tasks' = Append(tasks,
                [seq |-> nsubmitted + 1,
                 state_array |->
                   Snapshot(sensor_addr_vec_, joint_num_, sensordata)])

\* C15 as stated: a call with conter_ < avg_interval_ adds one to conter_
\* and changes nothing else; any other call adds one to conter_, adds
\* avg_interval_base_ to avg_interval_ and submits one snapshot.
C15_StepEffect ==
  [][ncalls' = ncalls + 1
       => IF DLess(DFromInt(conter_), avg_interval_) THEN SkipEffect
          ELSE /\ conter_' = conter_ + 1
               /\ avg_interval_' = DAdd(avg_interval_, avg_interval_base_)
               /\ SubmitsOne]_vars

\* C15: the same, except that an emitting call whose incremented conter_
\* exceeds ONE_MB also subtracts ONE_MB from conter_ and avg_interval_.
C15_StepEffectRenormalized ==
  [][ncalls' = ncalls + 1
       => IF DLess(DFromInt(conter_), avg_interval_) THEN SkipEffect
          ELSE /\ SubmitsOne
               /\ IF conter_ + 1 > ONE_MB
                  THEN /\ conter_' = conter_ + 1 - ONE_MB
                       /\ avg_interval_' =
                            DSub(DAdd(avg_interval_, avg_interval_base_),
                                 DFromInt(ONE_MB))
                  ELSE /\ conter_' = conter_ + 1
                       /\ avg_interval_' =
                            DAdd(avg_interval_, avg_interval_base_)]_vars

\* The last call emitted and renormalized, after calls that skipped.
C15_Witness ==
  /\ first_call < ONE_MB
  /\ Len(emit_ticks) = 2
  /\ emit_ticks[2] = ncalls - 1
  /\ emit_ticks[2] >= ONE_MB
  /\ conter_ = ncalls - ONE_MB
  /\ Len(tasks) = 1
  /\ sensor_reads = 2 * nsubmitted

\* ------------------------------------------------------------------------
\* The binding table and the two threads (Spec)
\* ------------------------------------------------------------------------
\* The stored index addr is usable for the sensor name it was made from:
\* a slot of the buffer that the resolver gave for a non-empty name, or
\* negative (the sentinel, read as 0.0).
SlotValid(addr, name) ==
  IF addr >= 0
  THEN addr \in DOMAIN sensordata /\ name # "" /\ addr = mj_name2id(name)
  ELSE addr = -1

\* C16: once Initialize has succeeded, the table has one entry and one name
\* per configured joint, and every stored index is either a slot of the
\* buffer resolved from the joint's non-empty sensor name or the sentinel;
\* the snapshot loop reads the buffer at no other index.
C16_SnapshotIndicesValid ==
  pc = "initialized"
    => /\ joint_num_ = Len(sensor_addr_vec_)
       /\ joint_num_ = Len(name_vec_)
       /\ joint_num_ = Len(options_)
       /\ \A i \in 1..joint_num_ :
            /\ SlotValid(sensor_addr_vec_[i].jointpos_addr,
                         options_[i].bind_jointpos_sensor)
            /\ SlotValid(sensor_addr_vec_[i].jointvel_addr,
                         options_[i].bind_jointvel_sensor)

\* An initialized publisher with a bound and an unbound joint that has
\* taken a snapshot.
C16_Witness ==
  /\ pc = "initialized"
  /\ joint_num_ = 2
  /\ sensor_addr_vec_[1].jointvel_addr = 1
  /\ sensor_addr_vec_[2].jointpos_addr = -1
  /\ nsubmitted >= 1

\* The message a worker holding closure t builds from t's state_array and
\* the binding data alone.
ClosureMessage(t) ==
  [seq |-> t.seq,
   data |-> [i \in 1..joint_num_ |->
              [name |-> name_vec_[i],
               position |-> t.state_array[i].jointpos_state,
               velocity |-> t.state_array[i].jointvel_state]]]

\* C17: closures exist only once the binding data is frozen; a worker's
\* step leaves the divider's counters, the buffer and the binding data
\* alone and publishes what its closure and the binding data determine; a
\* call of PublishSensorData leaves the binding data, the running closures
\* and the published messages alone; nothing changes the binding data
\* after setup.
C17_NoSharedMutableState ==
  /\ [](pc # "initialized"
          => tasks = <<>> /\ \A w \in Workers : running[w] = NoTask)
  /\ [][/\ running' # running
             => /\ UNCHANGED << conter_, avg_interval_, sensordata,
                                sensor_addr_vec_, name_vec_, joint_num_ >>
                /\ published' # published
                     => \E w \in Workers :
                          /\ running[w] # NoTask
                          /\ published' =
                               Append(published, ClosureMessage(running[w]))
        /\ ncalls' # ncalls
             => UNCHANGED << sensor_addr_vec_, name_vec_, joint_num_,
                             running, published >>
        /\ pc = "initialized"
             => UNCHANGED << sensor_addr_vec_, name_vec_, joint_num_ >>]_vars

\* A worker has published one closure while another waits and the producer
\* has moved on.
C17_Witness ==
  /\ Len(published) = 1
  /\ Len(tasks) = 1
  /\ \E w \in Workers : running[w] # NoTask
  /\ ncalls = MaxCalls
  /\ joint_num_ = 2

\* ------------------------------------------------------------------------
\* Bounds of the accumulator and the schedule (SpecDivider)
\* ------------------------------------------------------------------------
\* avg_interval_ - conter_; the subtraction is exact for the values the
\* divider reaches.
Phase == DSub(avg_interval_, DFromInt(conter_))

\* Both counters are within 0 .. ONE_MB + ceil(avg_interval_base_).
CountersInRange ==
  /\ 0 <= conter_
  /\ conter_ <= ONE_MB + DCeil(avg_interval_base_)
  /\ DLeq(DZero, avg_interval_)
  /\ DLeq(avg_interval_, DFromInt(ONE_MB + DCeil(avg_interval_base_)))

\* C18 as stated: after every call -1 < avg_interval_ - conter_ <= b - 1
\* with b = avg_interval_base_, and both counters stay within
\* 0 .. ONE_MB + ceil(b).
C18_PhaseBounds ==
  /\ DLess(DNeg(DFromInt(1)), Phase)
  /\ DLeq(Phase, DSub(avg_interval_base_, DFromInt(1)))
  /\ CountersInRange

\* C18: after every call -1 < avg_interval_ - conter_ < b, and both
\* counters stay within 0 .. ONE_MB + ceil(b); the phase exceeds b - 1 only
\* by what the double additions round.
C18_PhaseBoundsRounded ==
  /\ DLess(DNeg(DFromInt(1)), Phase)
  /\ DLess(Phase, avg_interval_base_)
  /\ DLess(DSub(Phase, DSub(avg_interval_base_, DFromInt(1))),
           DDiv(DFromInt(1), DFromInt(ONE_MB)))
  /\ CountersInRange

\* After several emits the phase is above b - 1.
C18_Witness ==
  /\ Len(emit_ticks) >= 2
  /\ DLess(DSub(avg_interval_base_, DFromInt(1)), Phase)

\* ceil(j * 1000 / f)
IdealTick(j, f) == (j * MAX_SIM_FRQ + f - 1) \div f

\* C19: from conter_ = 0 and avg_interval_ = 0, the calls that emit are
\* exactly the calls numbered ceil(j * 1000 / f), j = 0, 1, 2, ...: the
\* j-th emit so far was at that call, and the next one is not overdue.
C19_ClosedFormSchedule ==
  first_call = 0
    => /\ \A j \in 1..Len(emit_ticks) :
            emit_ticks[j] = IdealTick(j - 1, channel_frq_)
       /\ IdealTick(Len(emit_ticks), channel_frq_) >= ncalls
====
